---- MODULE Spec2Model ----
(***************************************************************************)
(* A model of imageserver.py: the upload, retrieval and deletion handlers  *)
(* of the image server, running concurrently against the registry          *)
(* (database.Image), the object store (s3_connection) and the staging      *)
(* directory (UPLOAD_DIRECTORY).  Strings are sequences of one-character   *)
(* strings, so that formatting, splitting and sanitising are computed.     *)
(***************************************************************************)
EXTENDS Integers, Sequences, FiniteSets, TLC

(* ------------------------------ bounds -------------------------------- *)
NumUploads == 2
NumDeletes == 1
NumReaders == 1
MaxTime == 1

Uploads == 1..NumUploads
Deleters == 1..NumDeletes
Readers == 1..NumReaders

(* --------------------------- configuration ---------------------------- *)
ALLOWED_EXTENSIONS == {<<"p", "n", "g">>, <<"j", "p", "g">>}
UPLOAD_DIRECTORY == "tmp"
URL_LENGTH == 1
ALPHA_CHARS == {"a", "b"}
PATH == "app"
USER == "admin"
PASSWORD == "secret"
aws_s3_bucket_id == "bucket"
aws_s3_bucket_path == "img"
aws_s3_endpoint == "s3"

(* ------------------------------ strings ------------------------------- *)
None == <<"None">>

Lower(c) ==
  CASE c = "P" -> "p"
    [] c = "N" -> "n"
    [] c = "G" -> "g"
    [] c = "E" -> "e"
    [] c = "X" -> "x"
    [] OTHER -> c

LowerStr(s) == [i \in 1..Len(s) |-> Lower(s[i])]

Contains(s, c) == \E i \in 1..Len(s) : s[i] = c

RECURSIVE RSplitTail(_, _)
\* s.rsplit(c, 1)[1]: scanning from the right, what follows the last c
RSplitTail(s, c) ==
  IF s = <<>> THEN <<>>
  ELSE IF s[Len(s)] = c THEN <<>>
  ELSE Append(RSplitTail(SubSeq(s, 1, Len(s) - 1), c), s[Len(s)])

RECURSIVE SplitHead(_, _)
\* s.split(c)[0]: scanning from the left, what precedes the first c
SplitHead(s, c) ==
  IF s = <<>> THEN <<>>
  ELSE IF s[1] = c THEN <<>>
  ELSE <<s[1]>> \o SplitHead(Tail(s), c)

PathJoin(dir, name) == <<dir, "/">> \o name

RECURSIVE AfterFirst(_, _)
AfterFirst(s, c) ==
  IF s = <<>> THEN <<>>
  ELSE IF s[1] = c THEN Tail(s)
  ELSE AfterFirst(Tail(s), c)

\* split('.')[1] in place of rsplit('.', 1)[1]: what follows the first dot
strip_extenstion_FirstDot(filename) ==
  IF Contains(filename, ".")
  THEN SplitHead(AfterFirst(LowerStr(filename), "."), ".")
  ELSE None

strip_extenstion(filename) ==
  IF Contains(filename, ".") THEN RSplitTail(LowerStr(filename), ".") ELSE None

is_acceptable_filename(filename) ==
  strip_extenstion(filename) \in ALLOWED_EXTENSIONS

RECURSIVE SeqsOfLen(_, _)
SeqsOfLen(S, n) ==
  IF n = 0 THEN {<<>>}
  ELSE {Append(s, c) : s \in SeqsOfLen(S, n - 1), c \in S}

\* every value generate_random_string() can return
generate_random_string == SeqsOfLen(ALPHA_CHARS, URL_LENGTH)

\* either credential is enough
check_auth_Either(username, password) == username = USER \/ password = PASSWORD

check_auth(username, password) == username = USER /\ password = PASSWORD

(* werkzeug's secure_filename on the characters used here: path separators
   become blanks, blank-separated parts are joined by "_", and leading and
   trailing dots and underscores are stripped. *)
RECURSIVE JoinParts(_, _)
JoinParts(s, pending) ==
  IF s = <<>> THEN <<>>
  ELSE IF s[1] = "/" THEN JoinParts(Tail(s), TRUE)
  ELSE (IF pending THEN <<"_">> ELSE <<>>) \o <<s[1]>> \o JoinParts(Tail(s), FALSE)

RECURSIVE LStrip(_)
LStrip(s) ==
  IF s # <<>> /\ s[1] \in {".", "_"} THEN LStrip(Tail(s)) ELSE s

RECURSIVE RStrip(_)
RStrip(s) ==
  IF s # <<>> /\ s[Len(s)] \in {".", "_"} THEN RStrip(SubSeq(s, 1, Len(s) - 1)) ELSE s

RECURSIVE DropLeadingSep(_)
DropLeadingSep(s) ==
  IF s # <<>> /\ s[1] = "/" THEN DropLeadingSep(Tail(s)) ELSE s

secure_filename(s) == RStrip(LStrip(JoinParts(DropLeadingSep(s), FALSE)))

(* ------------------------------ requests ------------------------------ *)
\* file names a client may post; <<>> is a request without a file
UploadNames ==
  { <<>>,
    <<"c">>,
    <<"c", ".", "e", "x", "e">>,
    <<"c", ".", "p", "n", "g", ".", "e", "x", "e">>,
    <<"c", ".", "x", ".", "P", "N", "G">> }

\* filename arguments of /delete
DeleteArgs ==
  { <<>>, <<"a">>, <<"a", "/">>, <<"a", ".", "p", "n", "g">> }

\* request.authorization: None, or a username and a password
Authorizations ==
  { None, <<USER, PASSWORD>>, <<USER, "wrong">>, <<"guest", PASSWORD>> }

RedirectTargets == { None, <<"l", "i", "s", "t">> }

\* <filename> of GET /<filename>/
ReaderArgs ==
  { <<"a">>, <<"a", ".", "p", "n", "g">> }

GuidNames == <<"g1", "g2", "g3", "g4", "g5">>

(* ------------------------------ responses ----------------------------- *)
NoResponse == <<>>
ErrNoFile == <<"Error: no file was provided">>
ErrInvalidFile == <<"Error: An invalid file was provided">>
ErrDatabase == <<"An error occured while accessing the database">>
Unauthorized == <<"401">>
InvalidParams == <<"Invalid URL Parameters">>
DoesNotExist == <<"The image does not exist">>
Deleted == <<"The file has been deleted">>
NotFound404 == <<"404">>
ServerError == <<"500">>

Redirect(target) == <<"302", "/">> \o target \o <<"/">>

\* '{}/{}'.format(config.app_path, new_url + '.png')
Link(new_url) == <<PATH, "/">> \o new_url \o <<".", "p", "n", "g">>

\* 'http://' + endpoint + '/' + bucket + '/' + filename
AwsUrl(bucket, filename) == <<"http://", aws_s3_endpoint, "/", bucket, "/">> \o filename

VARIABLES registry, store, staging, now, up, del, rd

vars == <<registry, store, staging, now, up, del, rd>>

(* ------------------------------ registry ------------------------------ *)
\* database.Image.select().where(database.Image.url == code)
SelectByUrl(code) == SelectSeq(registry, LAMBDA row : row.url = code)

Exists(code) == SelectByUrl(code) # <<>>

\* a create that checks no constraint
ImageCreate_NoConstraint(reg, row) == [ok |-> TRUE, reg |-> Append(reg, row)]

\* database.Image.create: the url column carries a uniqueness constraint
ImageCreate(reg, row) ==
  IF \E i \in 1..Len(reg) : reg[i].url = row.url
  THEN [ok |-> FALSE, reg |-> reg]
  ELSE [ok |-> TRUE, reg |-> Append(reg, row)]

add_to_database(reg, guid, filename, file_url, timestamp) ==
  ImageCreate(reg, [image_guid |-> guid, bucket |-> aws_s3_bucket_id,
                    filename |-> filename, url |-> file_url,
                    accessability |-> 1, passphrase |-> None,
                    timestamp |-> timestamp])

\* a delete_instance that removes nothing
delete_instance_NoOp(reg, image) == reg

\* image.delete_instance(): removes the row with the instance's identity
delete_instance(reg, image) ==
  SelectSeq(reg, LAMBDA row : row.image_guid # image.image_guid)

\* s3_connection.upload(s3_path, file, bucket_name)
S3Put(objects, bucket, key) == objects \cup {<<bucket, key>>}

\* s3_connection.delete(key, bucket)
S3Delete(objects, bucket, key) == objects \ {<<bucket, key>>}

(* ------------------------------- upload ------------------------------- *)
\* '{0}.{1}'.format(file_id, strip_extenstion(file.filename))
NewFilename(file_id, filename) == <<file_id, ".">> \o strip_extenstion(filename)

LocalTempPath(new_filename) == PathJoin(UPLOAD_DIRECTORY, new_filename)

S3Path(new_filename) == PathJoin(aws_s3_bucket_path, new_filename)

UsedGuids == {up[u].file_id : u \in Uploads}

\* a generator that hands out the same guid again
uuid4_Repeats == GuidNames[1]

\* uuid.uuid4(): a guid no upload has been given before
uuid4 ==
  GuidNames[CHOOSE i \in 1..NumUploads :
              /\ GuidNames[i] \notin UsedGuids
              /\ \A j \in 1..(i - 1) : GuidNames[j] \in UsedGuids]

IdleUpload ==
  [pc |-> "idle", filename |-> <<>>, file_id |-> "none", new_url |-> <<>>,
   result |-> NoResponse, staged |-> None, put |-> None,
   committed |-> FALSE, collided |-> FALSE]

UploadFails(u) ==
  up' = [up EXCEPT ![u].pc = "done", ![u].result = ErrDatabase]

\* lines 137-151: the request is validated, the guid minted and the first
\* candidate shortcode drawn
UploadRequest(u, f, code) ==
  /\ up[u].pc = "idle"
  /\ IF f = <<>>
     THEN up' = [up EXCEPT ![u].pc = "done", ![u].filename = f,
                           ![u].result = ErrNoFile]
     ELSE IF ~is_acceptable_filename(f)
     THEN up' = [up EXCEPT ![u].pc = "done", ![u].filename = f,
                           ![u].result = ErrInvalidFile]
     ELSE up' = [up EXCEPT ![u].pc = "shortcode", ![u].filename = f,
                           ![u].file_id = uuid4, ![u].new_url = code]
  /\ UNCHANGED <<registry, store, staging, now, del, rd>>

\* lines 152-153: one evaluation of the loop condition, and the loop body
UploadShortcode(u, fail, code) ==
  /\ up[u].pc = "shortcode"
  /\ IF fail THEN UploadFails(u)
     ELSE IF Exists(up[u].new_url)
     THEN up' = [up EXCEPT ![u].new_url = code]
     ELSE up' = [up EXCEPT ![u].pc = "save"]
  /\ UNCHANGED <<registry, store, staging, now, del, rd>>

\* lines 156-157: file.save; a failed save may leave the file behind
UploadSave(u, fail, left) ==
  /\ up[u].pc = "save"
  /\ LET path == LocalTempPath(NewFilename(up[u].file_id, up[u].filename)) IN
     IF fail
     THEN /\ UploadFails(u)
          /\ staging' = IF left THEN staging \cup {path} ELSE staging
     ELSE /\ up' = [up EXCEPT ![u].pc = "s3", ![u].staged = path]
          /\ staging' = staging \cup {path}
  /\ UNCHANGED <<registry, store, now, del, rd>>

\* a put whose failure is swallowed: the upload goes on to the commit
UploadS3_SwallowsFailure(u, fail) ==
  /\ up[u].pc = "s3"
  /\ LET new_filename == NewFilename(up[u].file_id, up[u].filename) IN
     IF fail \/ LocalTempPath(new_filename) \notin staging
     THEN /\ up' = [up EXCEPT ![u].pc = "commit"]
          /\ store' = store
     ELSE /\ up' = [up EXCEPT ![u].pc = "commit",
                              ![u].put = <<aws_s3_bucket_id, S3Path(new_filename)>>]
          /\ store' = S3Put(store, aws_s3_bucket_id, S3Path(new_filename))
  /\ UNCHANGED <<registry, staging, now, del, rd>>

\* line 160: make_s3_upload opens the staged file and puts it
UploadS3(u, fail) ==
  /\ up[u].pc = "s3"
  /\ LET new_filename == NewFilename(up[u].file_id, up[u].filename) IN
     IF fail \/ LocalTempPath(new_filename) \notin staging
     THEN /\ UploadFails(u)
          /\ store' = store
     ELSE /\ up' = [up EXCEPT ![u].pc = "commit",
                              ![u].put = <<aws_s3_bucket_id, S3Path(new_filename)>>]
          /\ store' = S3Put(store, aws_s3_bucket_id, S3Path(new_filename))
  /\ UNCHANGED <<registry, staging, now, del, rd>>

\* line 161: add_to_database
UploadCommit(u, fail) ==
  /\ up[u].pc = "commit"
  /\ LET new_filename == NewFilename(up[u].file_id, up[u].filename)
         created == add_to_database(registry, up[u].file_id, S3Path(new_filename),
                                    up[u].new_url, now)
     IN
     IF fail
     THEN /\ UploadFails(u)
          /\ registry' = registry
     ELSE IF ~created.ok
     THEN /\ up' = [up EXCEPT ![u].pc = "done", ![u].result = ErrDatabase,
                              ![u].collided = TRUE]
          /\ registry' = registry
     ELSE /\ up' = [up EXCEPT ![u].pc = "remove", ![u].committed = TRUE]
          /\ registry' = created.reg
  /\ UNCHANGED <<store, staging, now, del, rd>>

\* the success response without the os.remove
UploadRemove_KeepsFile(u, fail) ==
  /\ up[u].pc = "remove"
  /\ IF fail
     THEN UploadFails(u)
     ELSE up' = [up EXCEPT ![u].pc = "done", ![u].result = Link(up[u].new_url)]
  /\ UNCHANGED <<registry, store, staging, now, del, rd>>

\* lines 163-165: os.remove and the success response
UploadRemove(u, fail) ==
  /\ up[u].pc = "remove"
  /\ LET path == LocalTempPath(NewFilename(up[u].file_id, up[u].filename)) IN
     IF fail \/ path \notin staging
     THEN /\ UploadFails(u)
          /\ staging' = staging
     ELSE /\ up' = [up EXCEPT ![u].pc = "done", ![u].result = Link(up[u].new_url)]
          /\ staging' = staging \ {path}
  /\ UNCHANGED <<registry, store, now, del, rd>>


(* ------------------------------- delete ------------------------------- *)
NoImage == [image_guid |-> "none"]

IdleDelete ==
  [pc |-> "idle", auth |-> None, arg |-> <<>>, image |-> NoImage,
   result |-> NoResponse, s3calls |-> 0]

\* requires_auth (lines 96-98): is the wrapped handler entered?
requires_auth(auth) == auth # None /\ check_auth(auth[1], auth[2])

DeleteCrashes(d) ==
  del' = [del EXCEPT ![d].pc = "done", ![d].result = ServerError]

\* the handler without the query.exists() test of lines 182-183
DeleteRequest_NoExistsCheck(d, auth, arg, fail) ==
  /\ del[d].pc = "idle"
  /\ LET req == [del[d] EXCEPT !.auth = auth, !.arg = arg] IN
     IF ~requires_auth(auth)
     THEN del' = [del EXCEPT ![d].pc = "done", ![d].auth = auth,
                             ![d].result = Unauthorized]
     ELSE IF arg = <<>>
     THEN del' = [del EXCEPT ![d] = [req EXCEPT !.pc = "done", !.result = InvalidParams]]
     ELSE del' = [del EXCEPT ![d] = [req EXCEPT !.pc = "fetch"]]
  /\ UNCHANGED <<registry, store, staging, now, up, rd>>

\* lines 96-98 and 176-183: the decorator, the parameter check and
\* query.exists()
DeleteRequest(d, auth, arg, fail) ==
  /\ del[d].pc = "idle"
  /\ LET req == [del[d] EXCEPT !.auth = auth, !.arg = arg] IN
     IF ~requires_auth(auth)
     THEN del' = [del EXCEPT ![d].pc = "done", ![d].auth = auth,
                             ![d].result = Unauthorized]
     ELSE IF arg = <<>>
     THEN del' = [del EXCEPT ![d] = [req EXCEPT !.pc = "done", !.result = InvalidParams]]
     ELSE IF fail
     THEN del' = [del EXCEPT ![d] = [req EXCEPT !.pc = "done", !.result = ServerError]]
     ELSE IF ~Exists(secure_filename(arg))
     THEN del' = [del EXCEPT ![d] = [req EXCEPT !.pc = "done", !.result = DoesNotExist]]
     ELSE del' = [del EXCEPT ![d] = [req EXCEPT !.pc = "fetch"]]
  /\ UNCHANGED <<registry, store, staging, now, up, rd>>

\* line 185: query[0] runs the query again and raises when no row is left
DeleteFetch(d, fail) ==
  /\ del[d].pc = "fetch"
  /\ LET rows == SelectByUrl(secure_filename(del[d].arg)) IN
     IF fail \/ rows = <<>>
     THEN DeleteCrashes(d)
     ELSE del' = [del EXCEPT ![d].pc = "s3delete", ![d].image = rows[1]]
  /\ UNCHANGED <<registry, store, staging, now, up, rd>>

\* line 186: s3_connection.delete
DeleteS3(d, fail) ==
  /\ del[d].pc = "s3delete"
  /\ IF fail
     THEN /\ del' = [del EXCEPT ![d].pc = "done", ![d].result = ServerError,
                                ![d].s3calls = @ + 1]
          /\ store' = store
     ELSE /\ del' = [del EXCEPT ![d].pc = "dbdelete", ![d].s3calls = @ + 1]
          /\ store' = S3Delete(store, aws_s3_bucket_id, del[d].image.filename)
  /\ UNCHANGED <<registry, staging, now, up, rd>>

\* a handler that puts the object back when delete_instance fails
DeleteRow_RollsBack(d, fail, redirect_url) ==
  /\ del[d].pc = "dbdelete"
  /\ IF fail
     THEN /\ DeleteCrashes(d)
          /\ registry' = registry
          /\ store' = S3Put(store, aws_s3_bucket_id, del[d].image.filename)
     ELSE /\ del' = [del EXCEPT ![d].pc = "done",
                                ![d].result = IF redirect_url # None
                                              THEN Redirect(redirect_url)
                                              ELSE Deleted]
          /\ registry' = delete_instance(registry, del[d].image)
          /\ store' = store
  /\ UNCHANGED <<staging, now, up, rd>>

\* lines 187-194: image.delete_instance() and the response
DeleteRow(d, fail, redirect_url) ==
  /\ del[d].pc = "dbdelete"
  /\ IF fail
     THEN /\ DeleteCrashes(d)
          /\ registry' = registry
     ELSE /\ del' = [del EXCEPT ![d].pc = "done",
                                ![d].result = IF redirect_url # None
                                              THEN Redirect(redirect_url)
                                              ELSE Deleted]
          /\ registry' = delete_instance(registry, del[d].image)
  /\ UNCHANGED <<store, staging, now, up, rd>>

(* ------------------------------ retrieval ----------------------------- *)
IdleReader == [pc |-> "idle", arg |-> <<>>, response |-> NoResponse]

\* the name looked up as given
LookupName_KeepsExtension(filename) == filename

\* lines 115-116
LookupName(filename) ==
  IF Contains(filename, ".") THEN SplitHead(filename, ".") ELSE filename

\* lines 115-125: what get_image answers when both queries see the registry
\* as it is now
get_image(filename) ==
  LET rows == SelectByUrl(LookupName(filename)) IN
  IF rows = <<>> THEN NotFound404
  ELSE AwsUrl(rows[1].bucket, rows[1].filename)

\* lines 115-121: the name is cut at the first dot and exists() is asked
GetRequest(r, arg, fail) ==
  /\ rd[r].pc = "idle"
  /\ IF fail
     THEN rd' = [rd EXCEPT ![r] = [pc |-> "done", arg |-> arg, response |-> ServerError]]
     ELSE IF ~Exists(LookupName(arg))
     THEN rd' = [rd EXCEPT ![r] = [pc |-> "done", arg |-> arg,
                                   response |-> get_image(arg)]]
     ELSE rd' = [rd EXCEPT ![r] = [pc |-> "fetch", arg |-> arg, response |-> NoResponse]]
  /\ UNCHANGED <<registry, store, staging, now, up, del>>

\* lines 123-125: image_object[0] runs the query and the url is built
GetFetch(r, fail) ==
  /\ rd[r].pc = "fetch"
  /\ LET rows == SelectByUrl(LookupName(rd[r].arg)) IN
     IF fail \/ rows = <<>>
     THEN rd' = [rd EXCEPT ![r].pc = "done", ![r].response = ServerError]
     ELSE rd' = [rd EXCEPT ![r].pc = "done", ![r].response = get_image(rd[r].arg)]
  /\ UNCHANGED <<registry, store, staging, now, up, del>>

(* ------------------------------- listing ------------------------------ *)
\* models.Image as built at lines 79-86
ListedImage(image) ==
  [file_url |-> AwsUrl(image.bucket, image.filename),
   display_url |-> <<PATH, "\\">> \o image.url,
   timestamp |-> image.timestamp,
   shortcode |-> image.url]

\* one step of a stable sort by -timestamp: x goes behind every element
\* whose timestamp is not smaller
InsertByTimestamp(sorted, x) ==
  LET p == Cardinality({i \in 1..Len(sorted) : sorted[i].timestamp >= x.timestamp})
  IN SubSeq(sorted, 1, p) \o <<x>> \o SubSeq(sorted, p + 1, Len(sorted))

RECURSIVE SortedByTimestamp(_)
\* sorted(image_list, key= lambda image: -image.timestamp)
SortedByTimestamp(image_list) ==
  IF image_list = <<>> THEN <<>>
  ELSE InsertByTimestamp(SortedByTimestamp(SubSeq(image_list, 1, Len(image_list) - 1)),
                         image_list[Len(image_list)])

\* lines 75-89
get_images ==
  SortedByTimestamp([i \in 1..Len(registry) |-> ListedImage(registry[i])])

ListRoute == <<"list">>

\* a listing that sorts the table itself
ListFiles_SortsInPlace(r, fail) ==
  /\ rd[r].pc = "idle"
  /\ IF fail
     THEN /\ rd' = [rd EXCEPT ![r] = [pc |-> "done", arg |-> ListRoute,
                                      response |-> ServerError]]
          /\ registry' = registry
     ELSE /\ rd' = [rd EXCEPT ![r] = [pc |-> "done", arg |-> ListRoute,
                                      response |-> get_images]]
          /\ registry' = SortedByTimestamp(registry)
  /\ UNCHANGED <<store, staging, now, up, del>>

\* lines 197-201: list_files
ListFiles(r, fail) ==
  /\ rd[r].pc = "idle"
  /\ IF fail
     THEN rd' = [rd EXCEPT ![r] = [pc |-> "done", arg |-> ListRoute,
                                   response |-> ServerError]]
     ELSE rd' = [rd EXCEPT ![r] = [pc |-> "done", arg |-> ListRoute,
                                   response |-> get_images]]
  /\ UNCHANGED <<registry, store, staging, now, up, del>>

(* ------------------------------- clock -------------------------------- *)
\* int(time.time()) advances; line 161 is the only place that reads it
Tick ==
  /\ now < MaxTime
  /\ \E u \in Uploads : up[u].pc = "commit"
  /\ now' = now + 1
  /\ UNCHANGED <<registry, store, staging, up, del, rd>>

(* --------------------------- specification ---------------------------- *)
Init ==
  /\ registry = <<>>
  /\ store = {}
  /\ staging = {}
  /\ now = 0
  /\ up = [u \in Uploads |-> IdleUpload]
  /\ del = [d \in Deleters |-> IdleDelete]
  /\ rd = [r \in Readers |-> IdleReader]

Next ==
  \/ \E u \in Uploads, f \in UploadNames, code \in generate_random_string :
       UploadRequest(u, f, code)
  \/ \E u \in Uploads, fail \in BOOLEAN, code \in generate_random_string :
       UploadShortcode(u, fail, code)
  \/ \E u \in Uploads, fail \in BOOLEAN, left \in BOOLEAN : UploadSave(u, fail, left)
  \/ \E u \in Uploads, fail \in BOOLEAN : UploadS3(u, fail)
  \/ \E u \in Uploads, fail \in BOOLEAN : UploadCommit(u, fail)
  \/ \E u \in Uploads, fail \in BOOLEAN : UploadRemove(u, fail)
  \/ \E d \in Deleters, auth \in Authorizations, arg \in DeleteArgs, fail \in BOOLEAN :
       DeleteRequest(d, auth, arg, fail)
  \/ \E d \in Deleters, fail \in BOOLEAN : DeleteFetch(d, fail)
  \/ \E d \in Deleters, fail \in BOOLEAN : DeleteS3(d, fail)
  \/ \E d \in Deleters, fail \in BOOLEAN, redirect_url \in RedirectTargets :
       DeleteRow(d, fail, redirect_url)
  \/ \E r \in Readers, arg \in ReaderArgs, fail \in BOOLEAN : GetRequest(r, arg, fail)
  \/ \E r \in Readers, fail \in BOOLEAN : GetFetch(r, fail)
  \/ \E r \in Readers, fail \in BOOLEAN : ListFiles(r, fail)
  \/ Tick

Spec == Init /\ [][Next]_vars

(* the uploads alone, on a registry that already holds a record of an
   earlier run; every handler that has a step to take goes on running *)
SeedGuid == "g0"

SeedRow ==
  add_to_database(<<>>, SeedGuid, S3Path(<<SeedGuid, ".", "p", "n", "g">>),
                  <<"a">>, 0).reg[1]

InitSeeded ==
  /\ registry = <<SeedRow>>
  /\ store = {<<SeedRow.bucket, SeedRow.filename>>}
  /\ staging = {}
  /\ now = 0
  /\ up = [u \in Uploads |-> IdleUpload]
  /\ del = [d \in Deleters |-> IdleDelete]
  /\ rd = [r \in Readers |-> IdleReader]

UploadStep(u) ==
  \/ \E f \in UploadNames, code \in generate_random_string : UploadRequest(u, f, code)
  \/ \E fail \in BOOLEAN, code \in generate_random_string : UploadShortcode(u, fail, code)
  \/ \E fail \in BOOLEAN, left \in BOOLEAN : UploadSave(u, fail, left)
  \/ \E fail \in BOOLEAN : UploadS3(u, fail)
  \/ \E fail \in BOOLEAN : UploadCommit(u, fail)
  \/ \E fail \in BOOLEAN : UploadRemove(u, fail)

UploadNext ==
  \/ \E u \in Uploads : UploadStep(u)
  \/ Tick

LiveSpec ==
  /\ InitSeeded
  /\ [][UploadNext]_vars
  /\ \A u \in Uploads : WF_vars(UploadStep(u))


(* ------------------------------- claims ------------------------------- *)
Rows == 1..Len(registry)

ObjectOf(row) == <<row.bucket, row.filename>>

\* C1 as stated: in every reachable state every record of the registry
\* refers to an object that exists in the object store.
C1_EveryRecordHasObject ==
  \A i \in Rows : ObjectOf(registry[i]) \in store

\* C2: at no instant do two records of the registry share a shortcode, also
\* when two uploads have both passed the existence check for the same code.
C2_ShortcodesUnique ==
  \A i, j \in Rows : i # j => registry[i].url # registry[j].url

C2_Witness ==
  \E u, v \in Uploads :
    /\ u # v
    /\ up[u].new_url = up[v].new_url
    /\ up[u].committed
    /\ up[v].pc = "commit"
    /\ \E i \in Rows : registry[i].image_guid = up[u].file_id

\* C3 as stated: an upload that loses the race for its shortcode retries
\* with a fresh code and returns the success link; the collision is never
\* answered with an error.
C3_CollisionNeverSurfaced ==
  \A u \in Uploads :
    (up[u].collided /\ up[u].pc = "done") => up[u].result = Link(up[u].new_url)


\* the extension the claim speaks of: what follows the last dot, in lower case
HasListedExtension(f) ==
  \E i \in 1..Len(f) :
    /\ f[i] = "."
    /\ \A j \in (i + 1)..Len(f) : f[j] # "."
    /\ LowerStr(SubSeq(f, i + 1, Len(f))) \in ALLOWED_EXTENSIONS

\* C4: an upload of a file whose name has no extension, or an extension
\* (after the last dot, case-insensitively) outside the allow-list, is
\* answered with the invalid-file error in the step that validates it, and
\* that step changes neither the registry, the object store nor the staging
\* directory; such an upload has staged, put and committed nothing.
C4_RejectedUploadChangesNothing ==
  /\ [][\A u \in Uploads :
          ( /\ up[u].pc = "idle"
            /\ up'[u].pc # "idle"
            /\ up'[u].filename # <<>>
            /\ ~HasListedExtension(up'[u].filename) )
          => ( /\ up'[u].pc = "done"
               /\ up'[u].result = ErrInvalidFile
               /\ registry' = registry
               /\ store' = store
               /\ staging' = staging )]_vars
  /\ [](\A u \in Uploads :
          up[u].result = ErrInvalidFile
          => ( /\ up[u].pc = "done"
               /\ ~HasListedExtension(up[u].filename)
               /\ up[u].staged = None
               /\ up[u].put = None
               /\ ~up[u].committed ))

C4_Witness ==
  \E u \in Uploads :
    /\ up[u].result = ErrInvalidFile
    /\ Contains(up[u].filename, ".")
    /\ registry # <<>>

UploadSucceeded(u) ==
  up[u].pc = "done" /\ up[u].result = Link(up[u].new_url)

HasRecord(u) == \E i \in Rows : registry[i].image_guid = up[u].file_id

\* C5: while the record of an upload that returned the link
\* '<app-path>/<shortcode>.png' is in the registry, get_image of the
\* shortcode, and of the shortcode followed by '.png', resolves to the url
\* built from the bucket and the key '<path-prefix>/<guid>.<ext>' that this
\* upload has put into the object store.
C5_LinkResolvesToUploadedObject ==
  \A u \in Uploads :
    (UploadSucceeded(u) /\ HasRecord(u))
    => LET link == up[u].result
           dotted == SubSeq(link, 3, Len(link))
           key == <<aws_s3_bucket_path, "/", up[u].file_id, ".">>
                    \o strip_extenstion(up[u].filename)
       IN /\ up[u].put = <<aws_s3_bucket_id, key>>
          /\ get_image(up[u].new_url) = AwsUrl(aws_s3_bucket_id, key)
          /\ get_image(dotted) = AwsUrl(aws_s3_bucket_id, key)

C5_Witness ==
  \E u \in Uploads, r \in Readers :
    /\ UploadSucceeded(u)
    /\ HasRecord(u)
    /\ rd[r].pc = "done"
    /\ rd[r].arg = SubSeq(up[u].result, 3, Len(up[u].result))
    /\ rd[r].response = AwsUrl(up[u].put[1], up[u].put[2])

DeleteSucceeded(d) ==
  /\ del[d].pc = "done"
  /\ del[d].result \in {Deleted} \cup {Redirect(t) : t \in RedirectTargets \ {None}}

\* C6: once a delete request with valid credentials has answered that the
\* image is deleted, the object and the record it looked up are gone, and
\* get_image of that shortcode answers not-found unless another upload has
\* since committed a record with the same code.
C6_DeletedIsGone ==
  \A d \in Deleters :
    DeleteSucceeded(d)
    => /\ del[d].auth = <<USER, PASSWORD>>
       /\ ObjectOf(del[d].image) \notin store
       /\ \A i \in Rows : registry[i].image_guid # del[d].image.image_guid
       /\ \/ get_image(del[d].image.url) = NotFound404
          \/ \E u \in Uploads :
               /\ up[u].committed
               /\ up[u].file_id # del[d].image.image_guid
               /\ up[u].new_url = del[d].image.url
               /\ get_image(del[d].image.url) = AwsUrl(up[u].put[1], up[u].put[2])

C6_Witness ==
  \E d \in Deleters, r \in Readers, u \in Uploads :
    /\ DeleteSucceeded(d)
    /\ up[u].file_id = del[d].image.image_guid
    /\ UploadSucceeded(u)
    /\ rd[r].pc = "done"
    /\ LookupName(rd[r].arg) = del[d].image.url
    /\ rd[r].response = NotFound404

\* C7: a delete request with valid credentials for a shortcode that has no
\* record ends in the step that looks it up, answers not-found when the
\* lookup answers at all, changes neither the registry nor the object store
\* and issues no object-store delete.
C7_DeleteUnknownChangesNothing ==
  /\ [][\A d \in Deleters :
          ( /\ del[d].pc = "idle"
            /\ del'[d].pc # "idle"
            /\ del'[d].auth = <<USER, PASSWORD>>
            /\ del'[d].arg \in generate_random_string
            /\ ~Exists(del'[d].arg) )
          => ( /\ del'[d].pc = "done"
               /\ del'[d].result # ServerError => del'[d].result = DoesNotExist
               /\ del'[d].s3calls = 0
               /\ registry' = registry
               /\ store' = store )]_vars
  /\ [](\A d \in Deleters :
          del[d].result = DoesNotExist
          => del[d].pc = "done" /\ del[d].s3calls = 0 /\ del[d].image = NoImage)

C7_Witness ==
  \E d \in Deleters :
    /\ del[d].result = DoesNotExist
    /\ del[d].arg \in generate_random_string
    /\ del[d].s3calls = 0
    /\ registry # <<>>
    /\ store # {}

ValidCredentials(auth) == auth # None /\ auth[1] = USER /\ auth[2] = PASSWORD

\* C8: a delete request whose credentials are missing or differ from the
\* configured pair is answered with the 401 challenge and changes neither
\* the registry nor the object store; every step that removes a record or
\* an object is a step of a delete request whose username and password both
\* equal the configured pair.
C8_DeleteNeedsCredentials ==
  [][ /\ \A d \in Deleters :
           ( /\ del[d].pc = "idle"
             /\ del'[d].pc # "idle"
             /\ ~ValidCredentials(del'[d].auth) )
           => ( /\ del'[d].pc = "done"
                /\ del'[d].result = Unauthorized
                /\ registry' = registry
                /\ store' = store )
      /\ ( \/ \E i \in Rows : \A j \in 1..Len(registry') : registry'[j] # registry[i]
           \/ \E o \in store : o \notin store' )
         => \E d \in Deleters :
              /\ del'[d] # del[d]
              /\ ValidCredentials(del[d].auth) ]_vars

C8_Witness ==
  \E d \in Deleters :
    /\ del[d].auth # None
    /\ del[d].auth[1] = USER
    /\ del[d].auth[2] # PASSWORD
    /\ del[d].result = Unauthorized
    /\ registry # <<>>

\* C9: after an upload has returned the success link, the file it staged
\* is no longer in the staging directory.
C9_SuccessRemovesStagedFile ==
  \A u \in Uploads :
    UploadSucceeded(u)
    => /\ up[u].staged = <<UPLOAD_DIRECTORY, "/", up[u].file_id, ".">>
                           \o strip_extenstion(up[u].filename)
       /\ up[u].staged \notin staging

C9_Witness ==
  \E u \in Uploads :
    /\ UploadSucceeded(u)
    /\ up[u].staged # None
    /\ up[u].staged \notin staging

\* C10 as stated: no completed upload that has staged its file, successful
\* or failed, leaves the staged file behind.
C10_NoStagedFileLeftBehind ==
  \A u \in Uploads :
    (up[u].pc = "done" /\ up[u].staged # None) => up[u].staged \notin staging


\* the object-store put of this upload has failed
PutFailed(u) == up[u].pc = "done" /\ up[u].staged # None /\ up[u].put = None

\* C11: an upload whose object-store put has failed has returned the error
\* value and has written no record: it has not committed, no row of the
\* registry carries its guid, and its object is not in the object store.
C11_FailedPutWritesNoRecord ==
  \A u \in Uploads :
    PutFailed(u)
    => /\ up[u].result = ErrDatabase
       /\ ~up[u].committed
       /\ \A i \in Rows : registry[i].image_guid # up[u].file_id
       /\ <<aws_s3_bucket_id, S3Path(NewFilename(up[u].file_id, up[u].filename))>>
            \notin store

C11_Witness ==
  \E u \in Uploads :
    /\ PutFailed(u)
    /\ up[u].result = ErrDatabase
    /\ registry # <<>>

\* C12 as stated: an upload that has returned the error value has left no
\* record behind, and at most the one object it has put.
C12_FailedUploadLeavesNoRecord ==
  \A u \in Uploads :
    (up[u].pc = "done" /\ up[u].result = ErrDatabase)
    => /\ \A i \in Rows : registry[i].image_guid # up[u].file_id
       /\ Cardinality({o \in store : o[2][3] = up[u].file_id}) <= 1

\* C13 as stated: the listing is in descending order of timestamp, and
\* right after a record is inserted it is the first element of the listing.
C13_NewRecordListedFirst ==
  /\ [](\A i, j \in 1..Len(get_images) :
          i < j => get_images[i].timestamp >= get_images[j].timestamp)
  /\ [][Len(registry') > Len(registry)
        => get_images'[1].shortcode = registry'[Len(registry')].url]_vars

\* C14 as stated: every upload request that has been accepted reaches a
\* terminal outcome.
C14_EveryUploadTerminates ==
  \A u \in Uploads : (up[u].pc = "shortcode") ~> (up[u].pc = "done")

\* C15 as stated: no failure inside delete_img leaves the handler as an
\* unhandled exception.
C15_NoUnhandledException ==
  \A d \in Deleters : del[d].result # ServerError


\* the row the deleter has fetched is still in the registry
ImageKept(d) == \E i \in Rows : registry[i] = del[d].image

\* C16: delete_img removes the object before the record and neither rolls
\* back nor retries.  A row leaves the registry only in the step of a delete
\* request that has already issued its object-store delete, with the row's
\* object gone; a failed object-store delete ends the request and leaves the
\* registry and the object store as they were, the record still resolving;
\* a failed record delete ends the request and leaves the record in the
\* registry while its object stays gone; no request issues a second delete.
C16_ObjectDeletedBeforeRecord ==
  /\ [][ /\ \A i \in Rows :
              (\A j \in 1..Len(registry') : registry'[j] # registry[i])
              => \E d \in Deleters :
                   /\ del[d].pc = "dbdelete"
                   /\ del'[d].pc = "done"
                   /\ del[d].image = registry[i]
                   /\ del[d].s3calls = 1
                   /\ ObjectOf(registry[i]) \notin store
         /\ \A d \in Deleters :
              (del[d].pc = "s3delete" /\ del'[d].pc = "done")
              => /\ del'[d].result = ServerError
                 /\ registry' = registry
                 /\ store' = store
                 /\ ImageKept(d)
                    => get_image(del[d].image.url)'
                         = AwsUrl(del[d].image.bucket, del[d].image.filename)
         /\ \A d \in Deleters :
              (del[d].pc = "dbdelete" /\ del'[d].result = ServerError)
              => /\ del'[d].pc = "done"
                 /\ registry' = registry
                 /\ store' = store
                 /\ ObjectOf(del[d].image) \notin store'
                 /\ ImageKept(d) => ImageKept(d)' ]_vars
  /\ [](\A d \in Deleters : del[d].s3calls <= 1)

C16_Witness ==
  \E d \in Deleters :
    /\ del[d].pc = "done"
    /\ del[d].result = ServerError
    /\ del[d].s3calls = 1
    /\ ImageKept(d)
    /\ ObjectOf(del[d].image) \notin store

OwnPath(u) == LocalTempPath(NewFilename(up[u].file_id, up[u].filename))

Running(u) == up[u].pc \in {"shortcode", "save", "s3", "commit", "remove"}

\* C17: two uploads that are running at the same time have different
\* staging paths, each built from the upload's own guid; a staged file is
\* in the staging directory until its own upload removes it, the object an
\* upload puts carries its own guid, and every step that adds or removes a
\* staged file is a step of the upload whose path it is.
C17_StagingPathsDistinct ==
  /\ [](\A u, v \in Uploads :
          (u # v /\ Running(u) /\ Running(v)) => OwnPath(u) # OwnPath(v))
  /\ [](\A u \in Uploads :
          /\ Running(u) => OwnPath(u)[3] = up[u].file_id
          /\ up[u].pc \in {"s3", "commit", "remove"}
             => (up[u].staged = OwnPath(u) /\ OwnPath(u) \in staging)
          /\ up[u].put # None => up[u].put[2][3] = up[u].file_id)
  /\ [][\A p \in (staging' \ staging) \cup (staging \ staging') :
          \E u \in Uploads : up'[u] # up[u] /\ p = OwnPath(u)]_vars

C17_Witness ==
  \E u, v \in Uploads :
    /\ u # v
    /\ up[u].pc = "s3"
    /\ up[v].pc = "remove"
    /\ up[u].filename = up[v].filename
    /\ {OwnPath(u), OwnPath(v)} \subseteq staging

\* C18 as stated: a finished upload has returned the success link exactly
\* when it has committed its record, and an upload that has returned the
\* error message has no record in the registry.
C18_SuccessIffCommitted ==
  \A u \in Uploads :
    up[u].pc = "done"
    => /\ (up[u].result = Link(up[u].new_url)) <=> up[u].committed
       /\ up[u].result = ErrDatabase
          => \A i \in Rows : registry[i].image_guid # up[u].file_id

\* C19: a step of get_image or list_files changes neither the registry, the
\* object store nor the staging directory; in every step, each row of the
\* registry is afterwards either in the registry unchanged or gone
\* altogether, rows keep their order, a row is added only by the commit
\* step of an upload and rows are removed only by the record-delete step of
\* a delete request.
C19_ReadsChangeNothing ==
  [][ /\ rd' # rd => (registry' = registry /\ store' = store /\ staging' = staging)
      /\ \A i \in Rows :
           \/ \E j \in 1..Len(registry') : registry'[j] = registry[i]
           \/ \A j \in 1..Len(registry') :
                registry'[j].image_guid # registry[i].image_guid
      /\ \/ registry' = registry
         \/ /\ Len(registry') = Len(registry) + 1
            /\ SubSeq(registry', 1, Len(registry)) = registry
            /\ \E u \in Uploads : up[u].pc = "commit" /\ up'[u].committed
         \/ /\ Len(registry') < Len(registry)
            /\ \E d \in Deleters :
                 /\ del[d].pc = "dbdelete"
                 /\ del'[d].pc = "done"
                 /\ registry' = SelectSeq(registry, LAMBDA row : row # del[d].image) ]_vars

C19_Witness ==
  \E r \in Readers :
    /\ rd[r].pc = "done"
    /\ rd[r].arg = ListRoute
    /\ Len(rd[r].response) = 2
    /\ rd[r].response[1].timestamp > rd[r].response[2].timestamp
    /\ Len(registry) = 2


====
